---- MODULE Spec2Model ----
(***************************************************************************)
(* Model of the 2D cubic Bezier curve algebra of Node-Booster              *)
(* (src/utils/bezier2d_utils.py).                                          *)
(*                                                                         *)
(* A curve is the (N, 8) array of the source: a sequence of segments, each *)
(* the 8-tuple <<P0x, P0y, P1x, P1y, P2x, P2y, P3x, P3y>>.  Column c of    *)
(* the source (0-based) is component c+1 here.  A coordinate is an exact   *)
(* rational <<numerator, denominator>> in lowest terms, denominator > 0:   *)
(* the numpy float64 arithmetic of the source is modelled by the           *)
(* arithmetic of the rationals, its rounding error left out.               *)
(*                                                                         *)
(* The library is a set of pure functions.  The state machine is one call  *)
(* at a time: from "idle" a function is called with inputs drawn from      *)
(* bounded sets, the state then holds the inputs and the value returned,   *)
(* and Return goes back to "idle".                                         *)
(***************************************************************************)
EXTENDS Integers, Sequences, FiniteSets, TLC

VARIABLES call, segsA, segsB, rate, xloc, tmap, mixfac, mode_in, offset_in, ret

vars == <<call, segsA, segsB, rate, xloc, tmap, mixfac, mode_in, offset_in, ret>>

(***************************************************************************)
(* Bounds of the input sets.                                               *)
(***************************************************************************)
MaxX == 3
MaxSegs == 2
MaxRate == 3

(***************************************************************************)
(* Rational arithmetic (the float arithmetic of numpy, made exact).        *)
(***************************************************************************)
Abs(n) == IF n < 0 THEN -n ELSE n

RECURSIVE GCD(_, _)
GCD(a, b) == IF b = 0 THEN a ELSE GCD(b, a % b)

RNorm(n, d) ==
    LET s == IF d < 0 THEN -1 ELSE 1
        g == GCD(Abs(n), Abs(d))
    IN  <<(s * n) \div g, (s * d) \div g>>

R(n) == <<n, 1>>
Frac(n, d) == RNorm(n, d)

RAdd(a, b) ==
    LET g == GCD(a[2], b[2])
        l == (a[2] \div g) * b[2]
    IN  RNorm(a[1] * (l \div a[2]) + b[1] * (l \div b[2]), l)

RNeg(a) == <<-a[1], a[2]>>
RSub(a, b) == RAdd(a, RNeg(b))

RMul(a, b) ==
    LET g1 == GCD(Abs(a[1]), b[2])
        g2 == GCD(Abs(b[1]), a[2])
    IN  IF a[1] = 0 \/ b[1] = 0 THEN <<0, 1>>
        ELSE <<(a[1] \div g1) * (b[1] \div g2), (a[2] \div g2) * (b[2] \div g1)>>

RDiv(a, b) == RMul(a, RNorm(b[2], b[1]))

\* a/b < c/d for b, d > 0, by the continued-fraction comparison: no product
\* of two denominators is formed.
RECURSIVE FracLt(_, _, _, _)
FracLt(a, b, c, d) ==
    LET qa == a \div b
        qc == c \div d
        ra == a % b
        rc == c % d
    IN  IF qa # qc THEN qa < qc
        ELSE IF rc = 0 THEN FALSE
        ELSE IF ra = 0 THEN TRUE
        ELSE FracLt(d, rc, b, ra)

RLt(a, b) ==
    IF a[2] = b[2] THEN a[1] < b[1] ELSE FracLt(a[1], a[2], b[1], b[2])
RLe(a, b) == ~RLt(b, a)
RAbs(a) == <<Abs(a[1]), a[2]>>
RMin(a, b) == IF RLt(b, a) THEN b ELSE a
RMax(a, b) == IF RLt(a, b) THEN b ELSE a
\* np.clip(x, lo, hi)
RClip(x, lo, hi) == RMin(RMax(x, lo), hi)
\* np.sign(x) as an integer
RSign(a) == IF a[1] > 0 THEN 1 ELSE IF a[1] < 0 THEN -1 ELSE 0

\* the default tolerance of the source, 1e-6
TolDen == 1000000
tolerance == <<1, TolDen>>
ROne == R(1)
RZero == R(0)

\* the value a call returns: None, one array, or a pair of arrays
NoRet == [none |-> TRUE, a |-> <<>>, b |-> <<>>]
RetOne(a) == [none |-> FALSE, a |-> a, b |-> <<>>]
RetPair(a, b) == [none |-> FALSE, a |-> a, b |-> b]

(***************************************************************************)
(* Points and segments.                                                    *)
(***************************************************************************)
Pt(x, y) == <<x, y>>
PAdd(p, q) == <<RAdd(p[1], q[1]), RAdd(p[2], q[2])>>
PSub(p, q) == <<RSub(p[1], q[1]), RSub(p[2], q[2])>>
PScale(p, k) == <<RMul(p[1], k), RMul(p[2], k)>>

\* control_points = segments.reshape(num_segments, 4, 2)
P0(s) == <<s[1], s[2]>>
P1(s) == <<s[3], s[4]>>
P2(s) == <<s[5], s[6]>>
P3(s) == <<s[7], s[8]>>
Seg(p0, p1, p2, p3) ==
    <<p0[1], p0[2], p1[1], p1[2], p2[1], p2[2], p3[1], p3[2]>>

\* np.linspace(0, 1, sampling_rate + 1)[k], k = 0 .. sampling_rate
Linspace(k, sampling_rate) == Frac(k, sampling_rate)

\* the weights omt3, 3.0 * omt2 * t, 3.0 * omt * t2, t3 of the four control
\* points at parameter t
Bernstein(t) ==
    LET omt == RSub(ROne, t)
        omt2 == RMul(omt, omt)
        omt3 == RMul(omt2, omt)
        t2 == RMul(t, t)
        t3 == RMul(t2, t)
        three == R(3)
    IN  <<omt3, RMul(RMul(three, omt2), t), RMul(RMul(three, omt), t2), t3>>

\* coordinate c (1 for x, 2 for y) of
\* points = (P0 * omt3) + (P1 * 3.0 * omt2 * t) + (P2 * 3.0 * omt * t2) + (P3 * t3)
BezCoord(s, w, c) ==
    RAdd(RAdd(RMul(s[c], w[1]), RMul(s[c + 2], w[2])),
         RAdd(RMul(s[c + 4], w[3]), RMul(s[c + 6], w[4])))

BezPoint(s, t) ==
    LET w == Bernstein(t)
    IN  <<BezCoord(s, w, 1), BezCoord(s, w, 2)>>

(***************************************************************************)
(* sample_bezsegs                                                          *)
(***************************************************************************)
\* coordinate c of all_points[flat], all_points = points.reshape(-1, 2):
\* sample k of segment i (0-based) is at flat index i * (sampling_rate + 1) + k
AllPointsCoord(segments, sampling_rate, flat, c) ==
    LET npps == sampling_rate + 1
    IN  BezCoord(segments[(flat \div npps) + 1],
                 Bernstein(Linspace(flat % npps, sampling_rate)), c)

\* indices_to_keep (0-based): for each segment i,
\* range(start, end + 1) with start = i * npps + 1, end = start + sampling_rate
RECURSIVE IndicesToKeep(_, _, _)
IndicesToKeep(i, num_segments, sampling_rate) ==
    IF i = num_segments THEN <<>>
    ELSE LET start == i * (sampling_rate + 1) + 1
             end == start + sampling_rate
         IN  [k \in 1..(end + 1 - start) |-> start + k - 1]
                 \o IndicesToKeep(i + 1, num_segments, sampling_rate)

\* [0] + the indices of every segment, those past the array filtered out
KeptIndices(num_segments, sampling_rate) ==
    SelectSeq(<<0>> \o IndicesToKeep(0, num_segments, sampling_rate),
              LAMBDA idx : idx < num_segments * (sampling_rate + 1))

sample_bezsegs(segments, sampling_rate) ==
    LET kept == KeptIndices(Len(segments), sampling_rate)
    IN  [j \in 1..Len(kept) |->
            <<AllPointsCoord(segments, sampling_rate, kept[j], 1),
              AllPointsCoord(segments, sampling_rate, kept[j], 2)>>]

\* the default sample_rate of is_bezsegs_monotonic
DefaultSampleRate == 500

\* the four weights at t = k / sampling_rate as integers over the common
\* denominator sampling_rate^3; those of the default rate are tabulated once
WeightNums(k, sampling_rate) ==
    LET m == sampling_rate - k
    IN  <<m * m * m, 3 * m * m * k, 3 * m * k * k, k * k * k>>

DefaultWeightNums ==
    [k \in 0..DefaultSampleRate |-> WeightNums(k, DefaultSampleRate)]

LCM(a, b) == (a \div GCD(a, b)) * b

\* points_per_segment[i][:, 0] of sample_bezsegs_with_t (and the rows of
\* points[:, :, 0] of sample_bezsegs): the abscissae of the
\* sampling_rate + 1 samples of one segment at t = k / sampling_rate, each
\* as a fraction <<numerator, denominator>> over the one denominator
\* l * sampling_rate^3, l the common denominator of the segment's four
\* abscissae (the fractions are left unreduced: they are only compared)
SegSampleXs(s, sampling_rate) ==
    LET l == LCM(LCM(s[1][2], s[3][2]), LCM(s[5][2], s[7][2]))
        a == [i \in 1..4 |-> s[2 * i - 1][1] * (l \div s[2 * i - 1][2])]
        den == l * sampling_rate * sampling_rate * sampling_rate
    IN  [k \in 0..sampling_rate |->
            LET w == IF sampling_rate = DefaultSampleRate
                     THEN DefaultWeightNums[k]
                     ELSE WeightNums(k, sampling_rate)
            IN  <<a[1] * w[1] + a[2] * w[2] + a[3] * w[3] + a[4] * w[4], den>>]

(***************************************************************************)
(* casteljau_subdiv_bezsegs                                                *)
(***************************************************************************)
\* P * omt + Q * t
Lerp2(p, q, t) == PAdd(PScale(p, RSub(ROne, t)), PScale(q, t))

\* t = np.clip(t_map, 0.0, 1.0)
ClipT(t) == RClip(t, RZero, ROne)

\* a slip of potential_seg2: its two handles in the wrong order
Children_Swapped(s, tm) ==
    LET t == RClip(tm, RZero, ROne)
        Q0 == Lerp2(P0(s), P1(s), t)
        Q1 == Lerp2(P1(s), P2(s), t)
        Q2 == Lerp2(P2(s), P3(s), t)
        R0 == Lerp2(Q0, Q1, t)
        R1 == Lerp2(Q1, Q2, t)
        S == Lerp2(R0, R1, t)
    IN  <<Seg(P0(s), Q0, R0, S), Seg(S, Q2, R1, P3(s))>>

\* <<potential_seg1[i], potential_seg2[i]>> = <<(P0, Q0, R0, S), (S, R1, Q2, P3)>>
Children(s, tm) ==
    LET t == ClipT(tm)
        Q0 == Lerp2(P0(s), P1(s), t)
        Q1 == Lerp2(P1(s), P2(s), t)
        Q2 == Lerp2(P2(s), P3(s), t)
        R0 == Lerp2(Q0, Q1, t)
        R1 == Lerp2(Q1, Q2, t)
        S == Lerp2(R0, R1, t)
    IN  <<Seg(P0(s), Q0, R0, S), Seg(S, R1, Q2, P3(s))>>

\* a slip of subdivide_mask: the upper end left unchecked
SubdivideMask_NoUpper(tm, tol) == RLt(tol, tm)

\* subdivide_mask = (t_map > tolerance) & (t_map < 1.0 - tolerance)
SubdivideMask(tm, tol) == RLt(tol, tm) /\ RLt(tm, RSub(ROne, tol))

\* the loop assembling output_segments_list, from segment i on.  The two
\* potential children are built only where the mask selects them: the
\* source computes them for every row and reads them only there.
RECURSIVE AssembleOutput(_, _, _, _)
AssembleOutput(i, segments, t_map, tol) ==
    IF i > Len(segments) THEN <<>>
    ELSE (IF SubdivideMask(t_map[i], tol)
          THEN Children(segments[i], t_map[i])
          ELSE <<segments[i]>>)
         \o AssembleOutput(i + 1, segments, t_map, tol)

casteljau_subdiv_bezsegs(segments, t_map, tol) ==
    AssembleOutput(1, segments, t_map, tol)

(***************************************************************************)
(* cut_bezsegs                                                             *)
(***************************************************************************)
\* (P0x < xlocation < P3x) or (P3x < xlocation < P0x)
Brackets(s, xlocation) ==
    \/ RLt(s[1], xlocation) /\ RLt(xlocation, s[7])
    \/ RLt(s[7], xlocation) /\ RLt(xlocation, s[1])

\* idx = np.argmin(np.abs(sampled_pts[:, 0] - xlocation)): the first index
\* (0-based) of a smallest distance.  The distances are compared as integers
\* over their one denominator.
ArgminDist(xs, xlocation) ==
    LET d == [k \in DOMAIN xs |->
                Abs(xs[k][1] * xlocation[2] - xlocation[1] * xs[k][2])]
    IN  CHOOSE k \in DOMAIN xs :
            /\ \A j \in DOMAIN xs : d[k] <= d[j]
            /\ \A j \in DOMAIN xs : j < k => d[k] < d[j]

\* estimated_t = sampled_ts[idx]
EstimatedT(s, xlocation, sampling_rate) ==
    Linspace(ArgminDist(SegSampleXs(s, sampling_rate), xlocation), sampling_rate)

\* loop 3 for one segment: [mask |-> subdivide_mask[i], t |-> t_map[i]], the
\* estimated t where the segment brackets xlocation and the estimate is
\* strictly inside (tolerance, 1 - tolerance), 0.0 and no subdivision
\* otherwise
CutEstimate(s, xlocation, sampling_rate, tol) ==
    IF ~Brackets(s, xlocation) THEN [mask |-> FALSE, t |-> RZero]
    ELSE LET estimated_t == EstimatedT(s, xlocation, sampling_rate)
         IN  IF RLt(tol, estimated_t) /\ RLt(estimated_t, RSub(ROne, tol))
             THEN [mask |-> TRUE, t |-> estimated_t]
             ELSE [mask |-> FALSE, t |-> RZero]

\* slips of loop 5: the second child's P0x left as it is; and the anchor of
\* a row that was not split overwritten too
RECURSIVE AdjustAnchors_FirstOnly(_, _, _, _, _)
AdjustAnchors_FirstOnly(i, output_idx, mask, xlocation, modified) ==
    IF i > Len(mask) THEN modified
    ELSE IF mask[i]
    THEN AdjustAnchors_FirstOnly(i + 1, output_idx + 2, mask, xlocation,
             [modified EXCEPT ![output_idx][7] = xlocation])
    ELSE AdjustAnchors_FirstOnly(i + 1, output_idx + 1, mask, xlocation,
                                 modified)

RECURSIVE AdjustAnchors_NoMask(_, _, _, _, _)
AdjustAnchors_NoMask(i, output_idx, mask, xlocation, modified) ==
    IF i > Len(mask) THEN modified
    ELSE IF mask[i]
    THEN AdjustAnchors_NoMask(i + 1, output_idx + 2, mask, xlocation,
             [modified EXCEPT ![output_idx][7] = xlocation,
                              ![output_idx + 1][1] = xlocation])
    ELSE AdjustAnchors_NoMask(i + 1, output_idx + 1, mask, xlocation,
             [modified EXCEPT ![output_idx][7] = xlocation])

\* loop 5: modified_segments[output_idx, 6] = xlocation and
\* modified_segments[output_idx + 1, 0] = xlocation for every split segment
RECURSIVE AdjustAnchors(_, _, _, _, _)
AdjustAnchors(i, output_idx, mask, xlocation, modified) ==
    IF i > Len(mask) THEN modified
    ELSE IF mask[i]
    THEN AdjustAnchors(i + 1, output_idx + 2, mask, xlocation,
             [modified EXCEPT ![output_idx][7] = xlocation,
                              ![output_idx + 1][1] = xlocation])
    ELSE AdjustAnchors(i + 1, output_idx + 1, mask, xlocation, modified)

cut_bezsegs(segments, xlocation, sampling_rate, tol) ==
    LET est == [i \in 1..Len(segments) |->
                   CutEstimate(segments[i], xlocation, sampling_rate, tol)]
        mask == [i \in 1..Len(segments) |-> est[i].mask]
        t_map == [i \in 1..Len(segments) |-> est[i].t]
        subdivided == casteljau_subdiv_bezsegs(segments, t_map, tol)
    IN  AdjustAnchors(1, 1, mask, xlocation, subdivided)

(***************************************************************************)
(* is_bezsegs_monotonic, ensure_monotonic_bezsegs                          *)
(***************************************************************************)
\* sample_bezsegs(segments, sampling_rate)[:, 0]
SampledXs(segments, sampling_rate) ==
    LET kept == KeptIndices(Len(segments), sampling_rate)
        npps == sampling_rate + 1
        xs == [i \in 1..Len(segments) |-> SegSampleXs(segments[i], sampling_rate)]
    IN  [j \in 1..Len(kept) |-> xs[(kept[j] \div npps) + 1][kept[j] % npps]]

\* np.all(np.diff(points[:, 0]) >= 0) over sample_bezsegs(segments, sample_rate)
is_bezsegs_monotonic(segments, sample_rate) ==
    LET xs == SampledXs(segments, sample_rate)
    IN  \A j \in 1..(Len(xs) - 1) : RLe(xs[j], xs[j + 1])

\* anchor_handle_data: row j is [A, HL, HR], the anchor with its left and
\* right handle; the first anchor's left handle and the last anchor's right
\* handle default to the anchor.
AnchorHandleData(segments) ==
    LET n == Len(segments)
    IN  [j \in 1..(n + 1) |->
            LET A == IF j = 1 THEN P0(segments[1]) ELSE P3(segments[j - 1])
            IN  [A |-> A,
                 HL |-> IF j = 1 THEN A ELSE P2(segments[j - 1]),
                 HR |-> IF j = n + 1 THEN A ELSE P1(segments[j])]]

\* np.argsort(anchor_handle_data[:, 0]): the row indices by anchor x.  Rows
\* of equal x keep their order (numpy sorts an array this short by
\* insertion).
ArgsortX(rows) ==
    LET rank(i) == 1 + Cardinality({j \in 1..Len(rows) :
                        \/ RLt(rows[j].A[1], rows[i].A[1])
                        \/ rows[j].A[1] = rows[i].A[1] /\ j < i})
    IN  [r \in 1..Len(rows) |-> CHOOSE i \in 1..Len(rows) : rank(i) = r]

\* step 3: sorted_segments rebuilt from the sorted anchors
SortedSegments(segments) ==
    LET rows == AnchorHandleData(segments)
        idx == ArgsortX(rows)
    IN  [i \in 1..Len(segments) |->
            Seg(rows[idx[i]].A, rows[idx[i]].HR,
                rows[idx[i + 1]].HL, rows[idx[i + 1]].A)]

\* step 4: both handle abscissae clipped into the anchors' range and, where
\* they cross, both set to their mean
ClampHandles(s) ==
    LET x_min == RMin(s[1], s[7])
        x_max == RMax(s[1], s[7])
        x1_clamped == RClip(s[3], x_min, x_max)
        x2_clamped == RClip(s[5], x_min, x_max)
        crossover == RLt(x2_clamped, x1_clamped)
        x_split == RDiv(RAdd(x1_clamped, x2_clamped), R(2))
    IN  [s EXCEPT ![3] = IF crossover THEN x_split ELSE x1_clamped,
                  ![5] = IF crossover THEN x_split ELSE x2_clamped]

\* tolerance_align = 1e-7, epsilon_push = 1e-6
TolAlignDen == 10000000
EpsPushDen == 1000000
tolerance_align == <<1, TolAlignDen>>
epsilon_push == <<1, EpsPushDen>>

\* step 5, start handle: P1x of the first segment pushed off P0x towards
\* P3x and clipped again into the segment's range
PushStart(s) ==
    IF RLt(RAbs(RSub(s[3], s[1])), tolerance_align)
    THEN LET sgn == RSign(RSub(s[7], s[1]))
             push_dir == IF sgn = 0 THEN 1 ELSE sgn
             pushed == RAdd(s[3], RMul(epsilon_push, R(push_dir)))
         IN  [s EXCEPT ![3] = RClip(pushed, RMin(s[1], s[7]), RMax(s[1], s[7]))]
    ELSE s

\* step 5, end handle: P2x of the last segment pushed off P3x towards P0x
PushEnd(s) ==
    IF RLt(RAbs(RSub(s[5], s[7])), tolerance_align)
    THEN LET sgn == RSign(RSub(s[1], s[7]))
             push_dir == IF sgn = 0 THEN -1 ELSE sgn
             pushed == RAdd(s[5], RMul(epsilon_push, R(push_dir)))
         IN  [s EXCEPT ![5] = RClip(pushed, RMin(s[1], s[7]), RMax(s[1], s[7]))]
    ELSE s

ensure_monotonic_bezsegs(segments) ==
    IF is_bezsegs_monotonic(segments, DefaultSampleRate) THEN segments
    ELSE LET sorted == SortedSegments(segments)
             clamped == [i \in 1..Len(sorted) |-> ClampHandles(sorted[i])]
             started == [clamped EXCEPT ![1] = PushStart(clamped[1])]
             n == Len(started)
         IN  [started EXCEPT ![n] = PushEnd(started[n])]

(***************************************************************************)
(* extend_bezsegs                                                          *)
(***************************************************************************)
\* a slip of new_y: the anchor's y in both modes
NewY_Horizontal(anchor_point, connecting_handle, xlocation, mode, tol) ==
    anchor_point[2]

\* new_y of the outer anchor of the added segment: the end anchor's y in
\* mode 'HORIZONTAL'; in mode 'HANDLE' the y at xlocation of the line through
\* the anchor along tangent_vec = anchor_point - connecting_handle, or the
\* anchor's y when abs(Tx) < tolerance
NewY(anchor_point, connecting_handle, xlocation, mode, tol) ==
    IF mode = "HORIZONTAL" THEN anchor_point[2]
    ELSE LET Tx == RSub(anchor_point[1], connecting_handle[1])
             Ty == RSub(anchor_point[2], connecting_handle[2])
         IN  IF RLt(RAbs(Tx), tol) THEN anchor_point[2]
             ELSE LET dx == RSub(xlocation, anchor_point[1])
                      scale == RDiv(dx, Tx)
                      dy == RMul(scale, Ty)
                  IN  RAdd(anchor_point[2], dy)

\* the new row from P0_new to P3_new, its handles at 25% and 75% of the chord
NewSegmentRow(P0_new, P3_new) ==
    LET segment_vec == PSub(P3_new, P0_new)
        quarter == PScale(segment_vec, Frac(1, 4))
    IN  Seg(P0_new, PAdd(P0_new, quarter), PSub(P3_new, quarter), P3_new)

\* a slip of the range check: the tolerance left out
extend_bezsegs_NoTolerance(segments, xlocation, mode, tol) ==
    LET P0_orig == P0(segments[1])
        P1_orig == P1(segments[1])
        P2_orig == P2(segments[Len(segments)])
        P3_orig == P3(segments[Len(segments)])
        min_x == P0_orig[1]
        max_x == P3_orig[1]
    IN  IF RLt(xlocation, min_x)
        THEN <<NewSegmentRow(
                   Pt(xlocation, NewY(P0_orig, P1_orig, xlocation, mode, tol)),
                   P0_orig)>> \o segments
        ELSE IF RLt(max_x, xlocation)
        THEN Append(segments,
                    NewSegmentRow(
                        P3_orig,
                        Pt(xlocation,
                           NewY(P3_orig, P2_orig, xlocation, mode, tol))))
        ELSE segments

extend_bezsegs(segments, xlocation, mode, tol) ==
    LET P0_orig == P0(segments[1])
        P1_orig == P1(segments[1])
        P2_orig == P2(segments[Len(segments)])
        P3_orig == P3(segments[Len(segments)])
        min_x == P0_orig[1]
        max_x == P3_orig[1]
    IN  IF RLe(RSub(min_x, tol), xlocation) /\ RLe(xlocation, RAdd(max_x, tol))
        THEN segments
        ELSE IF RLt(xlocation, min_x)
        THEN <<NewSegmentRow(
                   Pt(xlocation, NewY(P0_orig, P1_orig, xlocation, mode, tol)),
                   P0_orig)>> \o segments
        ELSE IF RLt(max_x, xlocation)
        THEN Append(segments,
                    NewSegmentRow(
                        P3_orig,
                        Pt(xlocation,
                           NewY(P3_orig, P2_orig, xlocation, mode, tol))))
        ELSE segments

(***************************************************************************)
(* match_bounds                                                            *)
(***************************************************************************)
\* scale_x (scale_y): spanA / spanB when spanB > tolerance, 1.0 otherwise
ScaleFactor(spanA, spanB, tol) ==
    IF RLt(tol, spanB) THEN RDiv(spanA, spanB) ELSE ROne

\* coordinate v of segsMod moved: minus P0B, times abs(scale) when rescaled,
\* plus P0A
MovePoint(v, fromB, toA, scale, rescale) ==
    RAdd(IF rescale THEN RMul(RSub(v, fromB), RAbs(scale)) ELSE RSub(v, fromB),
         toA)

match_bounds(segsMod, segsRef, rescale_x, rescale_y, tol) ==
    LET P0A == P0(segsRef[1])
        P3A == P3(segsRef[Len(segsRef)])
        P0B == P0(segsMod[1])
        P3B == P3(segsMod[Len(segsMod)])
        scale_x == ScaleFactor(RAbs(RSub(P3A[1], P0A[1])),
                               RAbs(RSub(P3B[1], P0B[1])), tol)
        scale_y == ScaleFactor(RAbs(RSub(P3A[2], P0A[2])),
                               RAbs(RSub(P3B[2], P0B[2])), tol)
    IN  [i \in 1..Len(segsMod) |->
            [c \in 1..8 |->
                IF c % 2 = 1
                THEN MovePoint(segsMod[i][c], P0B[1], P0A[1], scale_x, rescale_x)
                ELSE MovePoint(segsMod[i][c], P0B[2], P0A[2], scale_y, rescale_y)]]

(***************************************************************************)
(* match_bezsegs                                                           *)
(***************************************************************************)
\* step 2: the four conditional extensions of one curve to the global range
ExtendToRange(segs, global_min_x, global_max_x, tol) ==
    LET min_x == segs[1][1]
        max_x == segs[Len(segs)][7]
        s1 == IF RLt(RAdd(global_min_x, tol), min_x)
              THEN extend_bezsegs(segs, global_min_x, "HANDLE", tol)
              ELSE segs
    IN  IF RLt(max_x, RSub(global_max_x, tol))
        THEN extend_bezsegs(s1, global_max_x, "HANDLE", tol)
        ELSE s1

\* knots_x = np.concatenate(([segs[0, 0]], segs[:, 6]))
KnotsX(segs) == <<segs[1][1]>> \o [i \in 1..Len(segs) |-> segs[i][7]]

\* steps 4 & 5: both curves cut at every knot from knot k on, the knots at
\* the global boundaries skipped.  cut_bezsegs is called with its default
\* tolerance.  Each cut is one assignment of the source: its value is
\* computed once and bound before the loop goes on.
RECURSIVE SubdivideAtKnots(_, _, _, _, _, _, _, _)
SubdivideAtKnots(k, knots, A, B, global_min_x, global_max_x, cut_precision, tol) ==
    IF k > Len(knots) THEN <<A, B>>
    ELSE IF \/ RLt(RAbs(RSub(knots[k], global_min_x)), tol)
            \/ RLt(RAbs(RSub(knots[k], global_max_x)), tol)
    THEN SubdivideAtKnots(k + 1, knots, A, B, global_min_x, global_max_x,
                          cut_precision, tol)
    ELSE CHOOSE r \in
             {SubdivideAtKnots(k + 1, knots, cutA, cutB,
                               global_min_x, global_max_x, cut_precision, tol) :
                  cutA \in {cut_bezsegs(A, knots[k], cut_precision, tolerance)},
                  cutB \in {cut_bezsegs(B, knots[k], cut_precision, tolerance)}} :
             TRUE

\* the value returned: None when the two arrays differ in length
match_bezsegs(A, B, cut_precision, tol) ==
    LET global_min_x == RMin(A[1][1], B[1][1])
        global_max_x == RMax(A[Len(A)][7], B[Len(B)][7])
    IN  CHOOSE r \in
            {IF Len(cut[1]) # Len(cut[2]) THEN NoRet
             ELSE RetPair(cut[1], cut[2]) :
                 cut \in {SubdivideAtKnots(1, KnotsX(extA) \o KnotsX(extB),
                                           extA, extB, global_min_x,
                                           global_max_x, cut_precision, tol) :
                              extA \in {ExtendToRange(A, global_min_x,
                                                      global_max_x, tol)},
                              extB \in {ExtendToRange(B, global_min_x,
                                                      global_max_x, tol)}}} :
            TRUE

(***************************************************************************)
(* lerp_bezsegs                                                            *)
(***************************************************************************)
\* mixed_segments = segsA * (1.0 - mixfac) + segsB * mixfac
MixSegments(A, B, mix) ==
    [i \in 1..Len(A) |->
        [c \in 1..8 |->
            RAdd(RMul(A[i][c], RSub(ROne, mix)), RMul(B[i][c], mix))]]

\* a slip of the edge cases: the two ends taken for each other
LerpMatched_Swapped(A, B, mix, tol) ==
    IF RLt(RAbs(RSub(mix, RZero)), tol) THEN RetOne(B)
    ELSE IF RLt(RAbs(RSub(mix, ROne)), tol) THEN RetOne(A)
    ELSE RetOne([i \in 1..Len(A) |->
                   [c \in 1..8 |->
                       RAdd(RMul(A[i][c], RSub(ROne, mix)), RMul(B[i][c], mix))]])

\* the edge cases of mixfac, then the interpolation, of two arrays of the
\* same length
LerpMatched(A, B, mix, tol) ==
    IF RLt(RAbs(RSub(mix, RZero)), tol) THEN RetOne(A)
    ELSE IF RLt(RAbs(RSub(mix, ROne)), tol) THEN RetOne(B)
    ELSE RetOne(MixSegments(A, B, mix))

\* when the lengths differ: B moved onto A's bounds, both matched (None from
\* match_bezsegs makes the unpacking raise, which returns None), B moved
\* back onto its own bounds
lerp_bezsegs(A, B, mixfac_in, cut_precision, tol) ==
    LET mix == RClip(mixfac_in, RZero, ROne)
    IN  IF Len(A) # Len(B)
        THEN CHOOSE r \in
                 {IF m.none THEN NoRet
                  ELSE LerpMatched(m.a, match_bounds(m.b, B, TRUE, FALSE, tolerance),
                                   mix, tol) :
                      m \in {match_bezsegs(A, newsB, cut_precision, tol) :
                                 newsB \in {match_bounds(B, A, TRUE, FALSE,
                                                         tolerance)}}} :
                 TRUE
        ELSE LerpMatched(A, B, mix, tol)

(***************************************************************************)
(* looped_offset_bezsegs                                                   *)
(***************************************************************************)
\* np.fmod(a, b): the remainder of a / b with the sign of a, the quotient
\* truncated towards zero
RFmod(a, b) ==
    LET q == RDiv(a, b)
        trunc == IF q[1] >= 0 THEN q[1] \div q[2] ELSE -((-q[1]) \div q[2])
    IN  RSub(a, RMul(b, R(trunc)))

\* cut_location = start_xloc + effective_offset, brought back into the range
CutLocation(start_xloc, end_xloc, distance, effective_offset) ==
    LET cut_location == RAdd(start_xloc, effective_offset)
    IN  IF RLt(cut_location, start_xloc) THEN RAdd(cut_location, distance)
        ELSE IF RLe(end_xloc, cut_location) THEN RSub(cut_location, distance)
        ELSE cut_location

\* step 2: split_idx, the number of rows before the cut; -1 stands for None.
\* Row i (1-based) is index i - 1 of the source.
SplitIdx(cut_segments, cut_location, tol) ==
    LET AtEnd(i) == RLe(RAbs(RSub(cut_segments[i][7], cut_location)), tol)
        AtStart(i) == RLe(RAbs(RSub(cut_segments[i][1], cut_location)), tol)
                         /\ i > 1
        hits == {i \in 1..Len(cut_segments) : AtEnd(i) \/ AtStart(i)}
    IN  IF hits = {} THEN -1
        ELSE LET i == CHOOSE h \in hits : \A g \in hits : h <= g
             IN  IF AtEnd(i) THEN i ELSE i - 1

\* rows[:, 0], [:, 2], [:, 4], [:, 6] += d
ShiftX(rows, d) ==
    [i \in 1..Len(rows) |->
        [c \in 1..8 |-> IF c % 2 = 1 THEN RAdd(rows[i][c], d) ELSE rows[i][c]]]

\* a slip of step 3: the part before the cut put behind the other where it is
FinalSegments_Unmoved(cut_segments, split_idx, effective_offset, distance) ==
    LET part1 == SubSeq(cut_segments, 1, split_idx)
        part2 == SubSeq(cut_segments, split_idx + 1, Len(cut_segments))
    IN  IF RLt(RZero, effective_offset)
        THEN part2 \o part1
        ELSE ShiftX(part2, RNeg(distance)) \o part1

\* step 3: the part before the cut moved behind the part after it
\* (effective_offset > 0), or the part after the cut moved before the part
\* before it
FinalSegments(cut_segments, split_idx, effective_offset, distance) ==
    LET part1 == SubSeq(cut_segments, 1, split_idx)
        part2 == SubSeq(cut_segments, split_idx + 1, Len(cut_segments))
    IN  IF RLt(RZero, effective_offset)
        THEN part2 \o ShiftX(part1, distance)
        ELSE ShiftX(part2, RNeg(distance)) \o part1

\* steps 2 to 4 on the cut curve: None when no row ends or starts at the cut
\* location, the rearranged rows moved back onto start_xloc otherwise
LoopAround(cut_segments, cut_location, effective_offset, start_xloc, distance, tol) ==
    LET split_idx == SplitIdx(cut_segments, cut_location, tol)
    IN  IF split_idx = -1 THEN NoRet
        ELSE CHOOSE r \in
                 {RetOne(ShiftX(final_segments,
                                RNeg(RSub(final_segments[1][1], start_xloc)))) :
                      final_segments \in
                          {FinalSegments(cut_segments, split_idx,
                                         effective_offset, distance)}} :
                 TRUE

\* the function on the monotonic version of its input
LoopedOffsetMono(mono_segments, offset, cut_precision, tol) ==
    IF offset = RZero THEN RetOne(mono_segments)
    ELSE LET start_xloc == mono_segments[1][1]
             end_xloc == mono_segments[Len(mono_segments)][7]
             distance == RSub(end_xloc, start_xloc)
         IN  IF RLe(distance, tol) THEN RetOne(mono_segments)
             ELSE LET effective_offset == RFmod(offset, distance)
                      cut_location == CutLocation(start_xloc, end_xloc,
                                                  distance, effective_offset)
                  IN  CHOOSE r \in
                          {LoopAround(cut_segments, cut_location,
                                      effective_offset, start_xloc, distance,
                                      tol) :
                               cut_segments \in
                                   {cut_bezsegs(mono_segments, cut_location,
                                                cut_precision, tol)}} :
                          TRUE

looped_offset_bezsegs(segments, offset, cut_precision, tol) ==
    CHOOSE r \in
        {LoopedOffsetMono(mono_segments, offset, cut_precision, tol) :
             mono_segments \in {ensure_monotonic_bezsegs(segments)}} :
        TRUE

(***************************************************************************)
(* Input sets.                                                             *)
(***************************************************************************)
\* non-decreasing sequences of length n over 0..MaxX
RECURSIVE NonDecr(_)
NonDecr(n) ==
    IF n = 0 THEN {<<>>}
    ELSE {Append(c, v) : <<c, v>> \in
            {p \in NonDecr(n - 1) \X (0..MaxX) :
                Len(p[1]) = 0 \/ p[1][Len(p[1])] <= p[2]}}

\* strictly increasing sequences of length n over 0..MaxX
StrictIncr(n) ==
    {c \in NonDecr(n) : \A j \in 1..(n - 1) : c[j] < c[j + 1]}

\* the ordinates of the control points, as a function of their index j and
\* abscissa x
YKinds == {"flat", "ramp", "zigzag"}
YOf(kind, j, x) ==
    CASE kind = "flat" -> RZero
      [] kind = "ramp" -> x
      [] kind = "zigzag" -> R(j % 2)

\* the curve of n segments with control abscissae cx (length 3n + 1):
\* consecutive segments share their anchor.
CurveOf(cx, kind) ==
    [i \in 1..((Len(cx) - 1) \div 3) |->
        LET c(j) == Pt(cx[j], YOf(kind, j, cx[j]))
        IN  Seg(c(3 * i - 2), c(3 * i - 1), c(3 * i), c(3 * i + 1))]

\* curves of n segments on the integer grid, every segment with
\* x0 <= x1 <= x2 <= x3
MonoCurves(n, kinds) ==
    {CurveOf([j \in 1..(3 * n + 1) |-> R(cx[j])], k) :
        cx \in NonDecr(3 * n + 1), k \in kinds}

\* where a style puts the two handles of a segment, as fractions of the
\* chord from P0x to P3x: "vector" is the VECTOR handle of a curve mapping
\* (a third of the chord), "late" keeps both handles on the start anchor,
\* "early" on the end anchor.
Styles == {"vector", "late", "early"}
HandleFrac(style) ==
    CASE style = "vector" -> <<Frac(1, 3), Frac(2, 3)>>
      [] style = "late" -> <<RZero, RZero>>
      [] style = "early" -> <<ROne, ROne>>

\* control abscissae of the curve through the anchors ax, in a style
StyledCtrl(ax, style) ==
    [j \in 1..(3 * (Len(ax) - 1) + 1) |->
        LET i == ((j - 1) \div 3) + 1
            r == (j - 1) % 3
        IN  IF r = 0 THEN R(ax[i])
            ELSE RAdd(R(ax[i]),
                      RMul(HandleFrac(style)[r], R(ax[i + 1] - ax[i])))]

\* curves of n segments with strictly increasing anchors
StyledCurves(n, styles, kinds) ==
    {CurveOf(StyledCtrl(ax, st), k) :
        ax \in StrictIncr(n + 1), st \in styles, k \in kinds}

Rates == 1..MaxRate
XLocs == {R(x) : x \in 0..MaxX}
\* t-values: 0, 1, interior values, values within tolerance of 0 and of 1,
\* and values outside [0, 1]
TValues == {Frac(k, MaxRate) : k \in 0..MaxRate}
              \cup {Frac(1, 2), Frac(1, 2 * TolDen), Frac(2 * TolDen - 1, 2 * TolDen),
                    tolerance, RSub(ROne, tolerance), R(2), R(-1)}


Init ==
    /\ call = "idle"
    /\ segsA = <<>>
    /\ segsB = <<>>
    /\ rate = 0
    /\ xloc = RZero
    /\ tmap = <<>>
    /\ mixfac = RZero
    /\ mode_in = ""
    /\ offset_in = RZero
    /\ ret = NoRet

Return ==
    /\ call # "idle"
    /\ call' = "idle"
    /\ segsA' = <<>>
    /\ segsB' = <<>>
    /\ rate' = 0
    /\ xloc' = RZero
    /\ tmap' = <<>>
    /\ mixfac' = RZero
    /\ mode_in' = ""
    /\ offset_in' = RZero
    /\ ret' = NoRet

CallSample ==
    /\ call = "idle"
    /\ \E n \in 1..MaxSegs : \E c \in MonoCurves(n, YKinds) : \E r \in Rates :
          /\ segsA' = c
          /\ rate' = r
          /\ ret' = RetOne(sample_bezsegs(c, r))
    /\ call' = "sample_bezsegs"
    /\ UNCHANGED <<segsB, xloc, tmap, mixfac, mode_in, offset_in>>

CallCasteljau ==
    /\ call = "idle"
    /\ \E n \in 1..MaxSegs :
       \E c \in StyledCurves(n, Styles, {"ramp"})
                   \cup (IF n = 1 THEN MonoCurves(1, {"zigzag"}) ELSE {}) :
       \E tm \in [1..n -> TValues] :
          /\ segsA' = c
          /\ tmap' = tm
          /\ ret' = RetOne(casteljau_subdiv_bezsegs(c, tm, tolerance))
    /\ call' = "casteljau_subdiv_bezsegs"
    /\ UNCHANGED <<segsB, rate, xloc, mixfac, mode_in, offset_in>>

CallCut ==
    /\ call = "idle"
    /\ \E n \in 1..MaxSegs : \E c \in MonoCurves(n, {"ramp"}) :
       \E x \in XLocs : \E r \in Rates :
          /\ segsA' = c
          /\ xloc' = x
          /\ rate' = r
          /\ ret' = RetOne(cut_bezsegs(c, x, r, tolerance))
    /\ call' = "cut_bezsegs"
    /\ UNCHANGED <<segsB, tmap, mixfac, mode_in, offset_in>>

\* continuous curves of n segments with every control abscissa free on the
\* grid, sorted or not
FreeCurves(n, kinds) ==
    {CurveOf([j \in 1..(3 * n + 1) |-> R(cx[j])], k) :
        cx \in [1..(3 * n + 1) -> 0..MaxX], k \in kinds}

\* continuous curves of n segments through anchors in any order, in a style
UnsortedCurves(n, styles, kinds) ==
    {CurveOf(StyledCtrl(ax, st), k) :
        ax \in [1..(n + 1) -> 0..MaxX], st \in styles, k \in kinds}

CallEnsureMonotonic ==
    /\ call = "idle"
    /\ \E n \in 1..MaxSegs :
       \E c \in UnsortedCurves(n, Styles, {"ramp"})
                   \cup (IF n = 1 THEN FreeCurves(1, {"ramp"}) ELSE {}) :
          /\ segsA' = c
          /\ ret' = RetOne(ensure_monotonic_bezsegs(c))
    /\ call' = "ensure_monotonic_bezsegs"
    /\ UNCHANGED <<segsB, rate, xloc, tmap, mixfac, mode_in, offset_in>>

NextMono == CallEnsureMonotonic \/ Return
SpecMono == Init /\ [][NextMono]_vars

MixFacs == {RZero, Frac(1, 2), ROne}

\* the pairs of curves given to match_bezsegs and lerp_bezsegs: strictly
\* increasing anchors, the first curve in any style, the second with VECTOR
\* handles
CurvesA == UNION {StyledCurves(n, Styles, {"ramp"}) : n \in 1..MaxSegs}
CurvesB == UNION {StyledCurves(n, {"vector"}, {"zigzag"}) : n \in 1..MaxSegs}

CallMatch ==
    /\ call = "idle"
    /\ \E A \in CurvesA : \E B \in CurvesB : \E r \in Rates :
          /\ segsA' = A
          /\ segsB' = B
          /\ rate' = r
          /\ ret' = match_bezsegs(A, B, r, tolerance)
    /\ call' = "match_bezsegs"
    /\ UNCHANGED <<xloc, tmap, mixfac, mode_in, offset_in>>

CallLerp ==
    /\ call = "idle"
    /\ \E A \in CurvesA : \E B \in CurvesB : \E r \in Rates : \E m \in MixFacs :
          /\ segsA' = A
          /\ segsB' = B
          /\ rate' = r
          /\ mixfac' = m
          /\ ret' = lerp_bezsegs(A, B, m, r, tolerance)
    /\ call' = "lerp_bezsegs"
    /\ UNCHANGED <<xloc, tmap, mode_in, offset_in>>

NextMatch == CallMatch \/ Return
SpecMatch == Init /\ [][NextMatch]_vars
NextLerp == CallLerp \/ Return
SpecLerp == Init /\ [][NextLerp]_vars

\* offsets: zero, both signs, halves and whole multiples of the widths
Offsets == {Frac(k, 2) : k \in (-2 * MaxX)..(2 * MaxX)}

\* the curves given to looped_offset_bezsegs: strictly increasing anchors in
\* every style, and single segments through two anchors in any order (of no
\* width, or running backwards, among them)
LoopCurves ==
    UNION {StyledCurves(n, Styles, {"ramp"}) : n \in 1..MaxSegs}
        \cup UnsortedCurves(1, {"vector"}, {"ramp"})

CallLoopedOffset ==
    /\ call = "idle"
    /\ \E c \in LoopCurves : \E o \in Offsets : \E r \in Rates :
          /\ segsA' = c
          /\ offset_in' = o
          /\ rate' = r
          /\ ret' = looped_offset_bezsegs(c, o, r, tolerance)
    /\ call' = "looped_offset_bezsegs"
    /\ UNCHANGED <<segsB, xloc, tmap, mixfac, mode_in>>

NextLoop == CallLoopedOffset \/ Return
SpecLoop == Init /\ [][NextLoop]_vars

Modes == {"HANDLE", "HORIZONTAL"}

\* the curves given to extend_bezsegs: strictly increasing anchors in every
\* style, and single segments on the grid, whose end tangents may be vertical
ExtendCurves ==
    UNION {StyledCurves(n, Styles, {"ramp", "zigzag"}) : n \in 1..MaxSegs}
        \cup MonoCurves(1, {"zigzag"})

\* xlocations: on the grid from left of every curve to right of every curve,
\* and about tolerance left of 0 and right of MaxX
ExtendXLocs ==
    {R(x) : x \in (-1)..(MaxX + 1)}
        \cup {Frac(-1, 2 * TolDen), RNeg(tolerance), Frac(-2, TolDen),
              RAdd(R(MaxX), tolerance), RAdd(R(MaxX), Frac(2, TolDen))}

CallExtend ==
    /\ call = "idle"
    /\ \E c \in ExtendCurves : \E x \in ExtendXLocs : \E m \in Modes :
          /\ segsA' = c
          /\ xloc' = x
          /\ mode_in' = m
          /\ ret' = RetOne(extend_bezsegs(c, x, m, tolerance))
    /\ call' = "extend_bezsegs"
    /\ UNCHANGED <<segsB, rate, tmap, mixfac, offset_in>>

NextExtend == CallExtend \/ Return
SpecExtend == Init /\ [][NextExtend]_vars

NextSample == CallSample \/ Return
NextCasteljau == CallCasteljau \/ Return
NextCut == CallCut \/ Return

SpecSample == Init /\ [][NextSample]_vars
SpecCasteljau == Init /\ [][NextCasteljau]_vars
SpecCut == Init /\ [][NextCut]_vars

Next ==
    \/ CallSample
    \/ CallCasteljau
    \/ CallCut
    \/ CallEnsureMonotonic
    \/ CallMatch
    \/ CallLerp
    \/ CallLoopedOffset
    \/ CallExtend
    \/ Return

Spec == Init /\ [][Next]_vars

(***************************************************************************)
(* Claims.                                                                 *)
(***************************************************************************)
\* x0 <= x1 <= x2 <= x3
XOrdered(s) == RLe(s[1], s[3]) /\ RLe(s[3], s[5]) /\ RLe(s[5], s[7])

\* where input row i lands in an output in which the rows j with Sp(j) have
\* been replaced by two rows
OutPos(i, Sp(_)) == i + Cardinality({j \in 1..(i - 1) : Sp(j)})

\* C1: for N >= 1 segments and sampling_rate >= 1, sample_bezsegs returns
\* exactly N * sampling_rate + 1 points: the t = 0 point of the first segment,
\* then for each segment in order its points at t = 1/sampling_rate .. 1, a
\* junction point appearing once.
C1_SampleJunctionsOnce ==
    call = "sample_bezsegs" =>
        /\ Len(ret.a) = Len(segsA) * rate + 1
        /\ ret.a[1] = BezPoint(segsA[1], RZero)
        /\ \A i \in 1..Len(segsA) : \A k \in 1..rate :
              ret.a[1 + (i - 1) * rate + k] = BezPoint(segsA[i], Frac(k, rate))

\* C8: casteljau_subdiv_bezsegs on N segments and an (N,) t_map returns N + k
\* segments, k the number of indices with tolerance < t_map[i] < 1 - tolerance;
\* each such segment is replaced, at its position, by two children (the first
\* starting at the parent's P0, the second ending at its P3, sharing an
\* anchor), and every other segment appears unchanged.
C8_IsSplit(i) ==
    RLt(tolerance, tmap[i]) /\ RLt(tmap[i], RSub(ROne, tolerance))

C8_CasteljauCount ==
    call = "casteljau_subdiv_bezsegs" =>
        /\ Len(ret.a) = Len(segsA)
                          + Cardinality({i \in 1..Len(segsA) : C8_IsSplit(i)})
        /\ \A i \in 1..Len(segsA) :
              LET pos == OutPos(i, C8_IsSplit)
              IN  IF C8_IsSplit(i)
                  THEN /\ P0(ret.a[pos]) = P0(segsA[i])
                       /\ P3(ret.a[pos + 1]) = P3(segsA[i])
                       /\ P3(ret.a[pos]) = P0(ret.a[pos + 1])
                  ELSE ret.a[pos] = segsA[i]

\* a call that split one segment of two and kept the other, whose t is
\* within tolerance of 0
C8_Witness ==
    /\ call = "casteljau_subdiv_bezsegs"
    /\ Len(segsA) = 2
    /\ tmap[1] = Frac(1, 2 * TolDen)
    /\ tmap[2] = Frac(1, 2)
    /\ Len(ret.a) = 3
    /\ ret.a[1] = segsA[1]

\* C9: the two children of a segment split at t are its de Casteljau
\* subdivision: child1(u) = parent(t * u) and child2(u) = parent(t + (1-t) * u)
\* (two cubics that agree at four parameters agree everywhere), child1
\* starts at the parent's P0, child2 ends at its P3, both share the anchor
\* S = parent(t).
UValues == {RZero, Frac(1, 3), Frac(2, 3), ROne}

C9_DeCasteljauChildren ==
    call = "casteljau_subdiv_bezsegs" =>
        \A i \in 1..Len(segsA) :
            C8_IsSplit(i) =>
                LET pos == OutPos(i, C8_IsSplit)
                    t == tmap[i]
                    parent == segsA[i]
                    child1 == ret.a[pos]
                    child2 == ret.a[pos + 1]
                IN  /\ \A u \in UValues :
                          /\ BezPoint(child1, u) = BezPoint(parent, RMul(t, u))
                          /\ BezPoint(child2, u) =
                                BezPoint(parent,
                                         RAdd(t, RMul(RSub(ROne, t), u)))
                    /\ P0(child1) = P0(parent)
                    /\ P3(child2) = P3(parent)
                    /\ P3(child1) = BezPoint(parent, t)
                    /\ P0(child2) = BezPoint(parent, t)

\* a curved segment split at t = 1/3
C9_Witness ==
    /\ call = "casteljau_subdiv_bezsegs"
    /\ Len(segsA) = 1
    /\ tmap[1] = Frac(1, 3)
    /\ Len(ret.a) = 2
    /\ segsA[1][4] # segsA[1][2]
    /\ RLt(segsA[1][1], segsA[1][3]) /\ RLt(segsA[1][3], segsA[1][5])

\* the sample of segment s nearest in x to xlocation (the first of the
\* nearest) is an interior sample
C5_NearestInterior(s, xlocation, sampling_rate) ==
    LET d(k) == RAbs(RSub(BezPoint(s, Frac(k, sampling_rate))[1], xlocation))
    IN  \E k \in 1..(sampling_rate - 1) :
            /\ \A j \in 0..(k - 1) : RLt(d(k), d(j))
            /\ \A j \in (k + 1)..sampling_rate : RLe(d(k), d(j))

\* the output of cut_bezsegs holds, in place of every input segment i with
\* Sp(i), two segments that start at its P0, meet at an anchor with
\* x = xlocation and end at its P3, and holds no other new segment
C5_SplitExactly(Sp(_)) ==
    /\ Len(ret.a) = Len(segsA) + Cardinality({i \in 1..Len(segsA) : Sp(i)})
    /\ \A i \in 1..Len(segsA) :
          Sp(i) =>
              LET pos == OutPos(i, Sp)
              IN  /\ P0(ret.a[pos]) = P0(segsA[i])
                  /\ ret.a[pos][7] = xloc
                  /\ ret.a[pos + 1][1] = xloc
                  /\ ret.a[pos][8] = ret.a[pos + 1][2]
                  /\ P3(ret.a[pos + 1]) = P3(segsA[i])

C5_Brackets(i) ==
    \/ RLt(segsA[i][1], xloc) /\ RLt(xloc, segsA[i][7])
    \/ RLt(segsA[i][7], xloc) /\ RLt(xloc, segsA[i][1])

C5_Cuttable(i) ==
    C5_Brackets(i) /\ C5_NearestInterior(segsA[i], xloc, rate)

C6_CutBounds ==
    call = "cut_bezsegs" =>
        /\ Len(segsA) <= Len(ret.a)
        /\ Len(ret.a) <= 2 * Len(segsA)
        /\ (Len(ret.a) = Len(segsA) => ret.a = segsA)

\* a cut that subdivides nothing although a segment brackets xlocation
C6_Witness ==
    /\ call = "cut_bezsegs"
    /\ \E i \in 1..Len(segsA) : C5_Brackets(i)
    /\ Len(ret.a) = Len(segsA)
    /\ ret.a = segsA

\* C7: when every input segment satisfies x0 <= x1 <= x2 <= x3, every segment
\* returned by cut_bezsegs satisfies it too, the two children of a split
\* included.
C7_CutKeepsXOrder ==
    (call = "cut_bezsegs" /\ \A i \in 1..Len(segsA) : XOrdered(segsA[i])) =>
        \A j \in 1..Len(ret.a) : XOrdered(ret.a[j])

\* C10: ensure_monotonic_bezsegs returns, for N segments, N segments whose
\* anchors are in non-decreasing x order, consecutive segments sharing their
\* anchor, and every segment with x0 <= x1 <= x2 <= x3, also after the final
\* step that pushes the first and last handles away from their anchors.
C10_AnchorsSorted ==
    /\ Len(ret.a) = Len(segsA)
    /\ \A i \in 1..Len(ret.a) : RLe(ret.a[i][1], ret.a[i][7])
    /\ \A i \in 1..(Len(ret.a) - 1) : P3(ret.a[i]) = P0(ret.a[i + 1])

C10_EnsureMonotonic ==
    call = "ensure_monotonic_bezsegs" =>
        /\ C10_AnchorsSorted
        /\ \A i \in 1..Len(ret.a) : XOrdered(ret.a[i])

\* |a - b| < tolerance
Near(a, b) == RLt(RAbs(RSub(a, b)), tolerance)

\* C2: whenever match_bezsegs returns a pair (A', B'), for every
\* cut_precision >= 1, the two curves have the same number of segments,
\* A'[i].P0x = B'[i].P0x and A'[i].P3x = B'[i].P3x for every i (within
\* tolerance), and both run from the smaller of the two input start x's to
\* the larger of the two input end x's.
C2_MatchAligned ==
    (call = "match_bezsegs" /\ ~ret.none) =>
        /\ Len(ret.a) = Len(ret.b)
        /\ \A i \in 1..Len(ret.a) :
              /\ Near(ret.a[i][1], ret.b[i][1])
              /\ Near(ret.a[i][7], ret.b[i][7])
        /\ LET lo == RMin(segsA[1][1], segsB[1][1])
               hi == RMax(segsA[Len(segsA)][7], segsB[Len(segsB)][7])
           IN  /\ Near(ret.a[1][1], lo) /\ Near(ret.b[1][1], lo)
               /\ Near(ret.a[Len(ret.a)][7], hi)
               /\ Near(ret.b[Len(ret.b)][7], hi)

\* the anchors of a curve, and their abscissae
Anchors(c) == {P0(c[1])} \cup {P3(c[i]) : i \in 1..Len(c)}
AnchorXs(c) == {p[1] : p \in Anchors(c)}

C3_Subdivides(r, c) ==
    /\ Len(r) >= Len(c)
    /\ P0(r[1]) = P0(c[1])
    /\ P3(r[Len(r)]) = P3(c[Len(c)])
    /\ Anchors(c) \subseteq Anchors(r)

C4_RescaledXs(A, B) ==
    LET a0 == A[1][1]
        b0 == B[1][1]
        k == RDiv(RSub(A[Len(A)][7], a0), RSub(B[Len(B)][7], b0))
    IN  {RAdd(a0, RMul(RSub(x, b0), k)) : x \in AnchorXs(B)}

\* C4: when segsA and segsB differ in their number of segments and each is
\* x-monotonic with strictly increasing anchor x positions, lerp_bezsegs
\* returns a curve (not None) with (number of distinct anchor x positions of
\* segsA united with those of segsB rescaled onto segsA's x-range) - 1
\* segments.
C4_LerpAddsSegments ==
    (/\ call = "lerp_bezsegs"
     /\ Len(segsA) # Len(segsB)
     /\ \A i \in 1..Len(segsA) : XOrdered(segsA[i]) /\ RLt(segsA[i][1], segsA[i][7])
     /\ \A i \in 1..Len(segsB) : XOrdered(segsB[i]) /\ RLt(segsB[i][1], segsB[i][7]))
    => /\ ~ret.none
       /\ Len(ret.a) =
            Cardinality(AnchorXs(segsA) \cup C4_RescaledXs(segsA, segsB)) - 1

\* a mod w for w > 0: a - w * floor(a / w)
RMod(a, w) ==
    LET q == RDiv(a, w)
        floor == IF q[1] >= 0 THEN q[1] \div q[2]
                 ELSE -(((-q[1]) + q[2] - 1) \div q[2])
    IN  RSub(a, RMul(w, R(floor)))

\* the first anchor x and the width of the curve given to looped_offset_bezsegs
LoopStart == segsA[1][1]
LoopWidth == RSub(segsA[Len(segsA)][7], segsA[1][1])

\* the curve given is monotonic with anchors in strictly increasing x order,
\* and a curve is returned
LoopReturnsCurve ==
    /\ call = "looped_offset_bezsegs"
    /\ \A i \in 1..Len(segsA) :
          XOrdered(segsA[i]) /\ RLt(segsA[i][1], segsA[i][7])
    /\ ~ret.none

\* C11: for a monotonic curve spanning [x_start, x_start + W] and
\* 0 < |offset| < W, an interior anchor that was at x appears in the result
\* of looped_offset_bezsegs at x_start + ((x - x_start + offset) mod W): a
\* positive offset shifts the curve right, a negative one left.
C11_ShiftsByOffset ==
    (/\ LoopReturnsCurve
     /\ RLt(RZero, RAbs(offset_in))
     /\ RLt(RAbs(offset_in), LoopWidth))
    => \A i \in 1..(Len(segsA) - 1) :
          LET x == segsA[i][7]
              moved == RAdd(LoopStart,
                            RMod(RAdd(RSub(x, LoopStart), offset_in), LoopWidth))
          IN  Pt(moved, segsA[i][8]) \in Anchors(ret.a)

\* C12: looped_offset_bezsegs returns None only on error or invalid
\* segments: for every valid x-monotonic curve whose width exceeds tolerance
\* and for every offset (zero, positive, negative, an exact multiple of the
\* width, or one that puts the cut on an existing anchor) it returns a curve.
C12_AlwaysReturnsCurve ==
    (/\ call = "looped_offset_bezsegs"
     /\ \A i \in 1..Len(segsA) : XOrdered(segsA[i])
     /\ RLt(tolerance, LoopWidth))
    => ~ret.none

\* C13: whenever looped_offset_bezsegs returns a curve for a monotonic input
\* spanning [x_start, x_end], the result's first anchor x is x_start, its
\* last anchor x is x_end, and consecutive segments are contiguous in x (P3x
\* of segment i equals P0x of segment i + 1).
C13_WrapsInRange ==
    (/\ call = "looped_offset_bezsegs"
     /\ \A i \in 1..Len(segsA) : XOrdered(segsA[i])
     /\ ~ret.none)
    => /\ ret.a[1][1] = segsA[1][1]
       /\ ret.a[Len(ret.a)][7] = segsA[Len(segsA)][7]
       /\ \A i \in 1..(Len(ret.a) - 1) : ret.a[i][7] = ret.a[i + 1][1]

\* a curve of two segments cut inside one of them by a positive offset, the
\* part before the cut wrapped to the end
C13_Witness ==
    /\ call = "looped_offset_bezsegs"
    /\ Len(segsA) = 2
    /\ \A i \in 1..Len(segsA) : XOrdered(segsA[i])
    /\ RLt(RZero, offset_in) /\ RLt(offset_in, LoopWidth)
    /\ ~ret.none
    /\ Len(ret.a) = 3
    /\ ret.a[1][1] = LoopStart
    /\ ret.a[3][7] = RAdd(LoopStart, LoopWidth)

\* xlocation lies within [first P0x - tolerance, last P3x + tolerance]
C14_InRange ==
    /\ RLe(RSub(segsA[1][1], tolerance), xloc)
    /\ RLe(xloc, RAdd(segsA[Len(segsA)][7], tolerance))

\* C14: extend_bezsegs returns the N input segments with unchanged values
\* when xlocation lies within [first P0x - tolerance, last P3x + tolerance];
\* otherwise it returns N + 1 segments, the originals in their order plus one
\* new segment prepended (xlocation left of the range) or appended (right of
\* it), whose outer anchor has x = xlocation and whose inner anchor equals
\* the end anchor of the original curve it joins.
C14_ExtendAddsOne ==
    call = "extend_bezsegs" =>
        LET N == Len(segsA)
        IN  IF C14_InRange THEN ret.a = segsA
            ELSE /\ Len(ret.a) = N + 1
                 /\ IF RLt(xloc, segsA[1][1])
                    THEN /\ SubSeq(ret.a, 2, N + 1) = segsA
                         /\ ret.a[1][1] = xloc
                         /\ P3(ret.a[1]) = P0(segsA[1])
                    ELSE /\ SubSeq(ret.a, 1, N) = segsA
                         /\ ret.a[N + 1][7] = xloc
                         /\ P0(ret.a[N + 1]) = P3(segsA[N])

\* a curve of two segments extended to the left by more than tolerance
C14_Witness ==
    /\ call = "extend_bezsegs"
    /\ Len(segsA) = 2
    /\ xloc = RAdd(segsA[1][1], Frac(-2, TolDen))
    /\ Len(ret.a) = 3
    /\ ret.a[1][1] = xloc
    /\ ret.a[2] = segsA[1]

\* the row extend_bezsegs added, the end anchor it joins, the handle next to
\* that anchor, and the outer anchor of the added row
C15_Left == RLt(xloc, segsA[1][1])
C15_New == IF C15_Left THEN ret.a[1] ELSE ret.a[Len(ret.a)]
C15_Anchor == IF C15_Left THEN P0(segsA[1]) ELSE P3(segsA[Len(segsA)])
C15_Handle == IF C15_Left THEN P1(segsA[1]) ELSE P2(segsA[Len(segsA)])
C15_Outer == IF C15_Left THEN P0(C15_New) ELSE P3(C15_New)
C15_Tangent == PSub(C15_Anchor, C15_Handle)

\* C15: in mode 'HANDLE' the outer anchor of the segment extend_bezsegs adds
\* lies on the straight line through the curve's end anchor and its adjacent
\* handle, and takes the end anchor's y, as in mode 'HORIZONTAL', when the
\* tangent's x-component is smaller than tolerance in absolute value; in both
\* modes the new segment's two handles sit at 25% and 75% of its chord, so
\* the new segment satisfies x0 <= x1 <= x2 <= x3.
C15_ExtendAlongTangent ==
    (call = "extend_bezsegs" /\ ~C14_InRange) =>
        LET d == PSub(C15_Outer, C15_Anchor)
            chord == PSub(P3(C15_New), P0(C15_New))
        IN  /\ IF mode_in = "HORIZONTAL" \/ RLt(RAbs(C15_Tangent[1]), tolerance)
               THEN C15_Outer[2] = C15_Anchor[2]
               ELSE RMul(d[1], C15_Tangent[2]) = RMul(d[2], C15_Tangent[1])
            /\ P1(C15_New) = PAdd(P0(C15_New), PScale(chord, Frac(1, 4)))
            /\ P2(C15_New) = PAdd(P0(C15_New), PScale(chord, Frac(3, 4)))
            /\ XOrdered(C15_New)

\* an extension to the right along a slanted end tangent
C15_Witness ==
    /\ call = "extend_bezsegs"
    /\ mode_in = "HANDLE"
    /\ ~C14_InRange /\ ~C15_Left
    /\ C15_Tangent[1] # RZero /\ C15_Tangent[2] # RZero
    /\ C15_Outer[2] # C15_Anchor[2]
    /\ C15_Outer[1] = xloc

====
